---------------------------- MODULE Spec2Model ----------------------------
(***************************************************************************)
(* A model of gs_quant/base.py: the binding layer between dictionaries and *)
(* typed objects (Base, BaseMeta, Instrument, get_enum_value).             *)
(*                                                                         *)
(* Strings are sequences of one-character strings, so that the naming      *)
(* conversions (inflection.underscore, inflection.camelize, str.lower)     *)
(* are computed character by character as the library computes them.       *)
(***************************************************************************)
EXTENDS Integers, Sequences, FiniteSets, TLC

\* --------------------------------------------------------------------------
\* Characters and strings
\* --------------------------------------------------------------------------

LowerChars == <<"a","b","c","d","e","f","g","h","i","j","k","l","m",
                "n","o","p","q","r","s","t","u","v","w","x","y","z">>

UpperChars == <<"A","B","C","D","E","F","G","H","I","J","K","L","M",
                "N","O","P","Q","R","S","T","U","V","W","X","Y","Z">>

Digits == {"0","1","2","3","4","5","6","7","8","9"}

IsUpperChar(c) == \E i \in DOMAIN UpperChars : UpperChars[i] = c

IsLowerChar(c) == \E i \in DOMAIN LowerChars : LowerChars[i] = c

\* str.lower() of one character
LowerChar(c) ==
    IF IsUpperChar(c)
    THEN LowerChars[CHOOSE i \in DOMAIN UpperChars : UpperChars[i] = c]
    ELSE c

\* str.upper() of one character
UpperChar(c) ==
    IF IsLowerChar(c)
    THEN UpperChars[CHOOSE i \in DOMAIN LowerChars : LowerChars[i] = c]
    ELSE c

\* str.lower()
StrLower(s) == [i \in DOMAIN s |-> LowerChar(s[i])]

\* str.isupper(): at least one cased character and no lowercase one
StrIsUpper(s) ==
    /\ \E i \in DOMAIN s : IsUpperChar(s[i])
    /\ \A i \in DOMAIN s : ~IsLowerChar(s[i])

\* --------------------------------------------------------------------------
\* Names (field names, wire names, enum values) as character sequences
\* --------------------------------------------------------------------------

fixed_rate == <<"f","i","x","e","d","_","r","a","t","e">>

rate == <<"r","a","t","e">>

leg == <<"l","e","g">>

legs == <<"l","e","g","s">>

time == <<"t","i","m","e">>

expiry_date == <<"e","x","p","i","r","y","_","d","a","t","e">>

pay_or_receive == <<"p","a","y","_","o","r","_","r","e","c","e","i","v","e">>

asset_class == <<"a","s","s","e","t","_","c","l","a","s","s">>

type == <<"t","y","p","e">>

ticker == <<"t","i","c","k","e","r">>

notAField == <<"n","o","t","A","F","i","e","l","d">>

StrNone == <<"N","o","n","e">>

\* the names whose conversions are tabulated once (UnderscoreMemo,
\* CamelizeMemo); any other string is converted when it is met
KnownNames ==
    { fixed_rate, rate, leg, legs, time, expiry_date, pay_or_receive,
      asset_class, type, ticker, notAField,
      <<"f","i","x","e","d","R","a","t","e">>,
      <<"e","x","p","i","r","y","D","a","t","e">>,
      <<"p","a","y","O","r","R","e","c","e","i","v","e">>,
      <<"a","s","s","e","t","C","l","a","s","s">> }

\* inflection.underscore, first substitution:
\*   re.sub(r"([A-Z]+)([A-Z][a-z])", r'\1_\2', word)
\* an underscore goes before the last capital of a run of capitals that a
\* lowercase letter follows.
RECURSIVE UnderscoreAcronyms(_, _)
UnderscoreAcronyms(s, i) ==
    IF i > Len(s) THEN <<>>
    ELSE LET brk == /\ i > 1
                    /\ i < Len(s)
                    /\ IsUpperChar(s[i - 1])
                    /\ IsUpperChar(s[i])
                    /\ IsLowerChar(s[i + 1])
         IN  (IF brk THEN <<"_", s[i]>> ELSE <<s[i]>>) \o UnderscoreAcronyms(s, i + 1)

\* inflection.underscore, second substitution:
\*   re.sub(r"([a-z\d])([A-Z])", r'\1_\2', word)
RECURSIVE UnderscoreWords(_, _)
UnderscoreWords(s, i) ==
    IF i > Len(s) THEN <<>>
    ELSE LET brk == /\ i > 1
                    /\ (IsLowerChar(s[i - 1]) \/ s[i - 1] \in Digits)
                    /\ IsUpperChar(s[i])
         IN  (IF brk THEN <<"_", s[i]>> ELSE <<s[i]>>) \o UnderscoreWords(s, i + 1)

\* word.replace("-", "_")
DashToUnderscore(s) == [i \in DOMAIN s |-> IF s[i] = "-" THEN "_" ELSE s[i]]

\* inflection.underscore(word), computed
UnderscoreCalc(s) ==
    StrLower(DashToUnderscore(UnderscoreWords(UnderscoreAcronyms(s, 1), 1)))

UnderscoreMemo == [s \in KnownNames |-> UnderscoreCalc(s)]

\* inflection.underscore(word)
Underscore(s) == IF s \in KnownNames THEN UnderscoreMemo[s] ELSE UnderscoreCalc(s)

\* inflection.camelize(string), from position i on:
\*   re.sub(r"(?:^|_)(.)", lambda m: m.group(1).upper(), string)
\* position 1 is matched by ^ (one character, upper-cased); later an
\* underscore and the character after it are replaced by that character
\* upper-cased.
RECURSIVE CamelizeFrom(_, _)
CamelizeFrom(s, i) ==
    IF i > Len(s) THEN <<>>
    ELSE IF i = 1 THEN <<UpperChar(s[1])>> \o CamelizeFrom(s, 2)
    ELSE IF s[i] = "_" /\ i < Len(s)
         THEN <<UpperChar(s[i + 1])>> \o CamelizeFrom(s, i + 2)
         ELSE <<s[i]>> \o CamelizeFrom(s, i + 1)

\* inflection.camelize(string, uppercase_first_letter=False), computed:
\*   string[0].lower() + camelize(string)[1:]
CamelizeCalc(s) == <<LowerChar(s[1])>> \o Tail(CamelizeFrom(s, 1))

CamelizeMemo == [s \in KnownNames |-> CamelizeCalc(s)]

\* inflection.camelize(string, uppercase_first_letter=False)
Camelize(s) == IF s \in KnownNames THEN CamelizeMemo[s] ELSE CamelizeCalc(s)


\* --------------------------------------------------------------------------
\* Python values.  Every value is a record tagged by k; the payload field
\* has a different name for each kind.
\* --------------------------------------------------------------------------

NoneV == [k |-> "none"]

IntV(i) == [k |-> "int", i |-> i]

StrV(s) == [k |-> "str", s |-> s]

\* a member of an enum class: t the class, m the member's name
EnumV(t, m) == [k |-> "enum", t |-> t, m |-> m]

\* a reference to an instance of a Base subclass
RefV(id) == [k |-> "ref", r |-> id]

\* datetime.datetime and datetime.date, as abstract instants
DateTimeV(n) == [k |-> "datetime", dt |-> n]

DateV(n) == [k |-> "date", d |-> n]

TupleV(items) == [k |-> "tuple", items |-> items]

\* a dict: a function from keys (strings) to values
DictV(d) == [k |-> "dict", d |-> d]

\* the empty dict
EmptyDict == [key \in {} |-> NoneV]

\* dict with the key removed (dict.pop's effect on the dict)
DictWithout(d, key) == [x \in (DOMAIN d) \ {key} |-> d[x]]

\* dict.get(key, default)
DictGet(d, key, default) == IF key \in DOMAIN d THEN d[key] ELSE default

\* --------------------------------------------------------------------------
\* Type declarations: the generated classes the binding layer works on.
\* --------------------------------------------------------------------------

\* Enum classes (class X(EnumBase, Enum)): members in declaration order,
\* each with its name n and its value v.
EnumMembers(t) ==
    CASE t = "AssetClass" ->
            << [n |-> "Rates", v |-> <<"R","a","t","e","s">>],
               [n |-> "Cash",  v |-> <<"C","a","s","h">>] >>
      [] t = "AssetType" ->
            << [n |-> "Swap",     v |-> <<"S","w","a","p">>],
               [n |-> "Currency", v |-> <<"C","u","r","r","e","n","c","y">>],
               [n |-> "Forward",  v |-> <<"F","o","r","w","a","r","d">>] >>
      [] t = "PayReceive" ->
            << [n |-> "Pay",     v |-> <<"P","a","y">>],
               [n |-> "Receive", v |-> <<"R","e","c","e","i","v","e">>] >>
      [] t = "Side" ->
            << [n |-> "Ab",  v |-> <<"A","b">>],
               [n |-> "AB",  v |-> <<"A","B">>],
               [n |-> "b",   v |-> <<"b">>] >>

EnumTypes == {"AssetClass", "AssetType", "PayReceive", "Side"}

\* the declared kind of a property (the return annotation of its getter)
PrimK == [kind |-> "prim"]

DateTimeK == [kind |-> "datetime"]

DateK == [kind |-> "date"]

EnumK(t) == [kind |-> "enum", t |-> t]

BaseK(c) == [kind |-> "base", cls |-> c]

TupleK(item) == [kind |-> "tuple", item |-> item]

\* the declared properties of each class, with their declared kinds
ClassDecl(cls) ==
    CASE cls = "Leg"    -> [p \in {rate} |-> PrimK]
      [] cls = "FixedLeg" -> [p \in {rate, fixed_rate} |-> PrimK]
      [] cls \in {"Base", "Priceable", "Instrument"} -> [p \in {} |-> PrimK]
      [] cls = "Marker" -> [p \in {} |-> PrimK]
      [] cls = "Trade"  -> [p \in {fixed_rate, leg} |->
                               IF p = leg THEN BaseK("Leg") ELSE PrimK]
      [] cls = "Fixing" -> [p \in {fixed_rate, time, expiry_date, pay_or_receive, leg, legs} |->
                               CASE p = fixed_rate     -> PrimK
                                 [] p = time           -> DateTimeK
                                 [] p = expiry_date    -> DateK
                                 [] p = pay_or_receive -> EnumK("PayReceive")
                                 [] p = leg            -> BaseK("Leg")
                                 [] p = legs           -> TupleK(BaseK("Leg"))]
      [] cls = "Swap" -> [p \in {asset_class, type, fixed_rate, pay_or_receive} |->
                               CASE p = asset_class    -> EnumK("AssetClass")
                                 [] p = type           -> EnumK("AssetType")
                                 [] p = fixed_rate     -> PrimK
                                 [] p = pay_or_receive -> EnumK("PayReceive")]
      [] cls = "Forward" -> [p \in {asset_class, type, rate} |->
                               CASE p = asset_class    -> EnumK("AssetClass")
                                 [] p = type           -> EnumK("AssetType")
                                 [] p = rate           -> PrimK]
      [] cls = "Security" -> [p \in {ticker} |-> PrimK]
      [] cls = "Event" -> [p \in {expiry_date, pay_or_receive} |->
                               IF p = expiry_date THEN DateK ELSE EnumK("PayReceive")]

Classes == {"Leg", "Marker", "Trade", "Fixing", "Swap", "Forward", "Security", "Event"}

\* the subclasses of Instrument
InstrumentClasses == {"Swap", "Forward", "Security"}

\* properties whose getter returns a constant and that have no setter:
\* the discriminants of an instrument class
ConstProps(cls) ==
    CASE cls = "Swap" ->
            [p \in {asset_class, type} |->
                IF p = asset_class THEN EnumV("AssetClass", "Rates") ELSE EnumV("AssetType", "Swap")]
      [] cls = "Forward" ->
            [p \in {asset_class, type} |->
                IF p = asset_class THEN EnumV("AssetClass", "Cash") ELSE EnumV("AssetType", "Forward")]
      [] OTHER -> [p \in {} |-> NoneV]

\* the constructor's parameters without a default, in order
RequiredArgs(cls) ==
    CASE cls = "Swap" -> <<pay_or_receive>>
      [] cls = "Event" -> <<expiry_date, pay_or_receive>>
      [] OTHER -> <<>>

\* --------------------------------------------------------------------------
\* Bounds of the model
\* --------------------------------------------------------------------------

\* object slots of the heap
MaxObjs == 3

\* primitive field values are 0..MaxVal
MaxVal == 1

\* --------------------------------------------------------------------------
\* State
\* --------------------------------------------------------------------------

VARIABLES
    heap,     \* object id -> the instance in that slot (NoObj when free)
    result,   \* what the last operation was given and what it returned
    class_properties,
              \* class -> its own __properties attribute (<<>> when the
              \* class has none of its own, <<names>> when it has)
    asset_class_and_type_to_instrument,
              \* Instrument.__asset_class_and_type_to_instrument
    threads,  \* thread -> where it is in Instrument.from_dict
    current_is_set,
              \* GsSession.current_is_set
    resolution_info
              \* object id -> its _resolution_info

\* the state outside the heap: class attributes, threads, the session and
\* the resolution state of priceables
statics == <<class_properties, asset_class_and_type_to_instrument, threads,
             current_is_set, resolution_info>>

vars == <<heap, result, class_properties, asset_class_and_type_to_instrument,
          threads, current_is_set, resolution_info>>

ObjIds == 1..MaxObjs

\* a free slot
NoObj == [cls |-> "", fields |-> EmptyDict, calced_hash |-> <<>>]

Live(h) == {id \in DOMAIN h : h[id].cls # ""}

LiveOf(h, cls) == {id \in Live(h) : h[id].cls = cls}

\* the lowest free slot
FreshId(h) == CHOOSE id \in DOMAIN h : h[id].cls = "" /\ \A j \in DOMAIN h : j < id => h[j].cls # ""

HasRoom(h) == \E id \in DOMAIN h : h[id].cls = ""

\* Base.properties(): the public property names of the class
Properties(cls) == DOMAIN ClassDecl(cls)

\* cached hash: <<>> is None, <<n>> is the integer n
NoHash == <<>>

\* --------------------------------------------------------------------------
\* Base.__hash__ and Base.__eq__
\* --------------------------------------------------------------------------

\* a ^ b on naturals
RECURSIVE Xor(_, _)
Xor(a, b) ==
    IF a = 0 THEN b
    ELSE IF b = 0 THEN a
    ELSE ((a + b) % 2) + 2 * Xor(a \div 2, b \div 2)

\* hash(None)
HashNone == 4

\* hash of a str, an abstraction of the interpreter's string hash
RECURSIVE HashStr(_)
HashStr(s) ==
    IF s = <<>> THEN 0
    ELSE (31 * HashStr(Tail(s)) + Len(s) +
          (IF IsUpperChar(s[1]) THEN 1 ELSE 0) +
          (IF \E i \in DOMAIN LowerChars : LowerChars[i] = LowerChar(s[1])
           THEN CHOOSE i \in DOMAIN LowerChars : LowerChars[i] = LowerChar(s[1])
           ELSE 0)) % 64

\* the index of the member named m in enum class t
MemberIndex(t, m) == CHOOSE i \in DOMAIN EnumMembers(t) : EnumMembers(t)[i].n = m

\* the ids of the instances a value holds (itself, or the items of a tuple)
RECURSIVE RefsIn(_)
RefsIn(v) ==
    CASE v.k = "ref"   -> {v.r}
      [] v.k = "tuple" -> UNION {RefsIn(v.items[i]) : i \in DOMAIN v.items}
      [] OTHER         -> {}

RECURSIVE HashOf(_, _)
RECURSIVE XorFields(_, _, _)

\* the XOR of the hashes of the current values of the properties in ps
XorFields(h, id, ps) ==
    IF ps = {} THEN 0
    ELSE LET p == CHOOSE q \in ps : TRUE
         IN  Xor(HashOf(h, h[id].fields[p]), XorFields(h, id, ps \ {p}))

\* Base.__hash__, the value it computes when nothing is cached:
\* 1 for a class without properties, else the XOR over all properties
FreshHash(h, id) ==
    IF Properties(h[id].cls) = {} THEN 1
    ELSE XorFields(h, id, Properties(h[id].cls))

\* what hash(v) returns in heap h; an instance returns its cached hash
\* when one is set
HashOf(h, v) ==
    CASE v.k = "none"     -> HashNone
      [] v.k = "int"      -> v.i
      [] v.k = "str"      -> HashStr(v.s)
      [] v.k = "enum"     -> 8 + MemberIndex(v.t, v.m)
      [] v.k = "datetime" -> 16 + v.dt
      [] v.k = "date"     -> 32 + v.d
      [] v.k = "tuple"    -> IF v.items = <<>> THEN 5
                             ELSE (3 * HashOf(h, Head(v.items)) + HashOf(h, TupleV(Tail(v.items)))) % 64
      [] v.k = "ref"      -> IF h[v.r].calced_hash # NoHash
                             THEN h[v.r].calced_hash[1]
                             ELSE FreshHash(h, v.r)

\* the instances whose __hash__ computes (and caches) a hash during
\* hash(instance id): itself when nothing is cached, and then those its
\* field values hold
RECURSIVE HashTouched(_, _)
HashTouched(h, id) ==
    IF h[id].calced_hash # NoHash THEN {}
    ELSE {id} \cup UNION {HashTouched(h, r) :
                            r \in UNION {RefsIn(h[id].fields[p]) : p \in Properties(h[id].cls)}}

\* the heap after hash(instance id)
HashCall(h, id) ==
    [x \in DOMAIN h |->
        IF x \in HashTouched(h, id)
        THEN [h[x] EXCEPT !.calced_hash = <<HashOf(h, RefV(x))>>]
        ELSE h[x]]

RECURSIVE PyEq(_, _, _)
RECURSIVE BaseEq(_, _, _)

\* Base.__eq__(a, b)
BaseEq(h, a, b) ==
    /\ h[a].cls = h[b].cls
    /\ \/ h[a].calced_hash = NoHash
       \/ h[b].calced_hash = NoHash
       \/ h[a].calced_hash = h[b].calced_hash
    /\ \A p \in Properties(h[a].cls) : PyEq(h, h[a].fields[p], h[b].fields[p])

\* v == w on Python values
PyEq(h, v, w) ==
    IF v.k # w.k THEN FALSE
    ELSE CASE v.k = "ref"   -> BaseEq(h, v.r, w.r)
           [] v.k = "tuple" -> /\ Len(v.items) = Len(w.items)
                               /\ \A i \in DOMAIN v.items : PyEq(h, v.items[i], w.items[i])
           [] OTHER         -> v = w

\* --------------------------------------------------------------------------
\* Construction, attribute assignment, clone
\* --------------------------------------------------------------------------

\* keyword.kwlist, the part that field names meet
Keywords == { <<"c","l","a","s","s">>, <<"f","r","o","m">>, <<"i","n">>,
              <<"i","f">> }

\* dir(builtins), the part that field names meet
BuiltinNames == { <<"t","y","p","e">>, <<"i","d">>, <<"f","o","r","m","a","t">> }

\* _normalise_arg
NormaliseArg(arg) ==
    IF arg \in Keywords \/ arg \in BuiltinNames THEN arg \o <<"_">> ELSE arg

\* the keys of a sequence of <<key, value>> pairs (a **kwargs, in order)
KwKeys(kw) == {kw[i][1] : i \in DOMAIN kw}

\* dict d with d[key] = value
DictPut(d, key, value) ==
    [x \in (DOMAIN d) \cup {key} |-> IF x = key THEN value ELSE d[x]]

\* BaseMeta.__call__, the loop over kwargs from position i on: the
\* normalised kwargs, or the ValueError of a field given twice
RECURSIVE NormaliseKwargs(_, _, _)
NormaliseKwargs(kw, i, acc) ==
    IF i > Len(kw) THEN [ok |-> TRUE, kwargs |-> acc]
    ELSE LET arg   == NormaliseArg(kw[i][1])
             value == kw[i][2]
             snake == Underscore(arg)
         IN  IF ~StrIsUpper(arg) /\ snake # arg
             THEN IF snake \in KwKeys(kw)
                  THEN [ok |-> FALSE, err |-> "ValueError"]
                  ELSE NormaliseKwargs(kw, i + 1, DictPut(acc, snake, value))
             ELSE NormaliseKwargs(kw, i + 1, DictPut(acc, arg, value))

\* the name of the constructor parameter of a property
ParamOf(p) == NormaliseArg(p)

\* the properties a constructor takes as parameters
InitProps(cls) == Properties(cls) \ DOMAIN ConstProps(cls)

\* __init__ of a generated class, called with keyword arguments nk:
\* Base.__init__ leaves the cached hash None, every property takes its
\* argument, None by default; an unexpected or a missing required
\* argument is a TypeError.
GeneratedInit(cls, nk) ==
    IF \/ \E key \in DOMAIN nk : key \notin {ParamOf(p) : p \in InitProps(cls)}
       \/ \E i \in DOMAIN RequiredArgs(cls) : ParamOf(RequiredArgs(cls)[i]) \notin DOMAIN nk
    THEN [ok |-> FALSE, err |-> "TypeError"]
    ELSE [ok |-> TRUE,
          obj |-> [cls |-> cls,
                   fields |-> [p \in Properties(cls) |->
                                  IF p \in DOMAIN ConstProps(cls) THEN ConstProps(cls)[p]
                                  ELSE DictGet(nk, ParamOf(p), NoneV)],
                   calced_hash |-> NoHash]]

\* cls(**kw): BaseMeta.__call__ and then __init__; the new instance takes
\* the lowest free slot
NewObj(h, cls, kw) ==
    LET Made(made) ==
            IF ~made.ok THEN [ok |-> FALSE, err |-> made.err, heap |-> h, id |-> 0]
            ELSE [ok |-> TRUE, err |-> "",
                  heap |-> [h EXCEPT ![FreshId(h)] = made.obj],
                  id |-> FreshId(h)]
        Normalised(n) ==
            IF ~n.ok THEN [ok |-> FALSE, err |-> n.err, heap |-> h, id |-> 0]
            ELSE Made(GeneratedInit(cls, n.kwargs))
    IN  Normalised(NormaliseKwargs(kw, 1, EmptyDict))

\* Base._property_changed
PropertyChanged(obj) == [obj EXCEPT !.calced_hash = NoHash]

\* the setter of a generated property: store the value, then
\* self._property_changed(prop); a property without a setter raises
PropertySetter(h, id, prop, value) ==
    IF prop \in DOMAIN ConstProps(h[id].cls)
    THEN [ok |-> FALSE, err |-> "AttributeError", heap |-> h]
    ELSE [ok |-> TRUE, err |-> "",
          heap |-> [h EXCEPT ![id] = PropertyChanged([@ EXCEPT !.fields[prop] = value])]]

\* Base.__setattr__: the snake_case spelling of the key is assigned when it
\* is a property and the key itself is not; a key that is no property in
\* either spelling becomes a plain instance attribute, outside the
\* declared fields
SetAttr(h, id, key, value) ==
    LET properties == Properties(h[id].cls)
        snake_case_key == Underscore(key)
    IN  IF snake_case_key \in properties /\ key \notin properties
        THEN PropertySetter(h, id, snake_case_key, value)
        ELSE IF key \in properties
             THEN PropertySetter(h, id, key, value)
             ELSE [ok |-> TRUE, err |-> "", heap |-> h]

\* Base.clone's loop as it would be if a key that is no property were
\* skipped instead of raising
RECURSIVE CloneLoopSkipsUnknown(_, _, _, _)
CloneLoopSkipsUnknown(h, c, kw, i) ==
    IF i > Len(kw) THEN [ok |-> TRUE, err |-> "", heap |-> h]
    ELSE IF kw[i][1] \in Properties(h[c].cls)
         THEN LET set == SetAttr(h, c, kw[i][1], kw[i][2])
              IN  IF set.ok THEN CloneLoopSkipsUnknown(set.heap, c, kw, i + 1) ELSE set
         ELSE CloneLoopSkipsUnknown(h, c, kw, i + 1)

\* Base.clone, the loop over kwargs from position i on, on the heap that
\* holds the copy in slot c
RECURSIVE CloneLoop(_, _, _, _)
CloneLoop(h, c, kw, i) ==
    IF i > Len(kw) THEN [ok |-> TRUE, err |-> "", heap |-> h]
    ELSE IF kw[i][1] \in Properties(h[c].cls)
         THEN LET set == SetAttr(h, c, kw[i][1], kw[i][2])
              IN  IF set.ok THEN CloneLoop(set.heap, c, kw, i + 1) ELSE set
         ELSE [ok |-> FALSE, err |-> "ValueError", heap |-> h]

\* Base.clone as it would be if the overrides were assigned to self
\* before the copy is taken
CloneAfterAssigning(h, id, kw) ==
    LET c    == FreshId(h)
        done == CloneLoop(h, id, kw, 1)
    IN  IF done.ok
        THEN [ok |-> TRUE, err |-> "", heap |-> [done.heap EXCEPT ![c] = done.heap[id]], id |-> c]
        ELSE [ok |-> FALSE, err |-> done.err, heap |-> h, id |-> 0]

\* Base.clone(**kw): copy.copy(self), then the overrides; when it raises
\* the copy is dropped
Clone(h, id, kw) ==
    LET c    == FreshId(h)
        done == CloneLoop([h EXCEPT ![c] = h[id]], c, kw, 1)
    IN  IF done.ok
        THEN [ok |-> TRUE, err |-> "", heap |-> done.heap, id |-> c]
        ELSE [ok |-> FALSE, err |-> done.err, heap |-> h, id |-> 0]

\* --------------------------------------------------------------------------
\* Objects: construction, assignment, hash, equality and clone
\* --------------------------------------------------------------------------

\* the classes whose instances the object operations act on
ObjClasses == {"Leg", "Trade", "Marker"}

\* most overrides in one clone call
MaxOverrides == 2

PrimValues == {NoneV} \cup {IntV(i) : i \in 0..MaxVal}

\* the values a caller assigns to property p of class cls: a primitive
\* for a primitive property, an instance for a nested one
ValuesFor(h, cls, p) ==
    IF p \notin Properties(cls) THEN {IntV(0)}
    ELSE IF ClassDecl(cls)[p].kind = "base"
         THEN {NoneV} \cup {RefV(r) : r \in LiveOf(h, ClassDecl(cls)[p].cls)}
         ELSE PrimValues

\* the keys a caller uses on an instance of cls: each property in its
\* canonical and in its wire spelling, and a name that is no property
KeysFor(cls) ==
    Properties(cls) \cup {Camelize(p) : p \in Properties(cls)} \cup {notAField}

\* keyword arguments for a call on class cls: up to n <<key, value>>
\* pairs with distinct keys
RECURSIVE KwargsFor(_, _, _)
KwargsFor(h, cls, n) ==
    IF n = 0 THEN {<<>>}
    ELSE LET shorter == KwargsFor(h, cls, n - 1)
         IN  shorter \cup
             UNION {{Append(kw, <<key, v>>) :
                        kw \in {s \in shorter : Len(s) = n - 1},
                        v \in ValuesFor(h, cls, Underscore(key))} :
                    key \in KeysFor(cls)}

DistinctKeys(kw) == \A i, j \in DOMAIN kw : i # j => kw[i][1] # kw[j][1]

\* the classes whose __properties attribute the model holds: Base and
\* Priceable and Instrument of base.py, and generated classes
SchemaClasses ==
    {"Base", "Priceable", "Instrument", "Marker", "Leg", "FixedLeg", "Swap", "Security"}

\* the threads that call Instrument.from_dict
MaxThreads == 2

Threads == 1..MaxThreads

\* before anything ran: Base.__properties = set() (no other class has the
\* attribute), Instrument.__asset_class_and_type_to_instrument = {}, no
\* thread in from_dict, no session, nothing resolved
InitStatics ==
    /\ class_properties = [c \in SchemaClasses |-> IF c = "Base" THEN <<{}>> ELSE <<>>]
    /\ asset_class_and_type_to_instrument = EmptyDict
    /\ threads = [t \in Threads |-> [pc |-> "idle"]]
    /\ current_is_set = FALSE
    /\ resolution_info = [id \in ObjIds |-> NoneV]

InitObj ==
    /\ heap = [id \in ObjIds |-> NoObj]
    /\ result = [op |-> "init"]
    /\ InitStatics

\* obj = cls(**kw)
ObjNew(cls, kw) ==
    /\ HasRoom(heap)
    /\ LET r == NewObj(heap, cls, kw)
       IN  /\ UNCHANGED statics
           /\ heap' = r.heap
           /\ result' = [op |-> "new", ok |-> r.ok, id |-> r.id]

\* setattr(obj, key, value)
ObjSetAttr(id, key, value) ==
    LET r == SetAttr(heap, id, key, value)
    IN  /\ UNCHANGED statics
        /\ heap' = r.heap
        /\ result' = [op |-> "setattr", ok |-> r.ok]

\* hash(obj)
ObjHash(id) ==
    /\ UNCHANGED statics
    /\ heap' = HashCall(heap, id)
    /\ result' = [op |-> "hash", val |-> HashOf(heap, RefV(id))]

\* a == b
ObjEq(a, b) ==
    /\ UNCHANGED statics
    /\ heap' = heap
    /\ result' = [op |-> "eq", val |-> BaseEq(heap, a, b)]

NextObj ==
    \/ \E cls \in ObjClasses :
         \E kw \in {s \in KwargsFor(heap, cls, 1) : KwKeys(s) \subseteq Properties(cls)} :
            ObjNew(cls, kw)
    \/ \E id \in Live(heap) :
         \E key \in KeysFor(heap[id].cls) :
            \E value \in ValuesFor(heap, heap[id].cls, Underscore(key)) :
               ObjSetAttr(id, key, value)
    \/ \E id \in Live(heap) : ObjHash(id)
    \/ \E a, b \in Live(heap) : ObjEq(a, b)

SpecObj == InitObj /\ [][NextObj]_vars

\* C2: hash/equality consistency.  In every reachable state, for all live
\* instances a and b of the same class, a == b implies hash(a) == hash(b).
C2_EqualImpliesSameHash ==
    \A a, b \in Live(heap) :
        (heap[a].cls = heap[b].cls /\ BaseEq(heap, a, b))
            => HashOf(heap, RefV(a)) = HashOf(heap, RefV(b))

\* C3: hash cache invalidation.  In every reachable state, a cached hash
\* that is set equals the XOR of the hashes of the current values of all
\* declared fields (1 for a class without declared fields).
C3_CachedHashIsCurrent ==
    \A id \in Live(heap) :
        heap[id].calced_hash # NoHash => heap[id].calced_hash[1] = FreshHash(heap, id)

\* --------------------------------------------------------------------------
\* Clone: one Leg and one Trade that holds it or not, assigned to and
\* hashed in any order, and then one clone call with its overrides
\* --------------------------------------------------------------------------

InitClone ==
    \E r \in PrimValues, f \in PrimValues, l \in {NoneV, RefV(1)} :
        /\ heap = NewObj(NewObj([id \in ObjIds |-> NoObj], "Leg", << <<rate, r>> >>).heap,
                         "Trade", << <<fixed_rate, f>>, <<leg, l>> >>).heap
        /\ result = [op |-> "init"]
        /\ InitStatics

\* obj.clone(**kw); before is the heap as the call found it
ObjClone(id, kw) ==
    /\ HasRoom(heap)
    /\ LET r == Clone(heap, id, kw)
       IN  /\ UNCHANGED statics
           /\ heap' = r.heap
           /\ result' = [op |-> "clone", ok |-> r.ok, src |-> id, kw |-> kw,
                         id |-> r.id, before |-> heap]

NextClone ==
    /\ result.op # "clone"
    /\ \/ \E id \in Live(heap) :
            \E key \in KeysFor(heap[id].cls) :
               \E value \in ValuesFor(heap, heap[id].cls, Underscore(key)) :
                  ObjSetAttr(id, key, value)
       \/ \E id \in Live(heap) : ObjHash(id)
       \/ \E id \in Live(heap) :
            \E kw \in {s \in KwargsFor(heap, heap[id].cls, MaxOverrides) : DistinctKeys(s)} :
               ObjClone(id, kw)

SpecClone == InitClone /\ [][NextClone]_vars

\* the class of the instance the last clone call was made on
CloneCls == result.before[result.src].cls

C6_UnknownOverrideRaises ==
    (/\ result.op = "clone"
     /\ \E i \in DOMAIN result.kw : result.kw[i][1] \notin Properties(CloneCls))
    => /\ ~result.ok
       /\ result.id = 0
       /\ heap = result.before

\* C6 witness: a clone call whose first override is valid and changes the
\* field and whose second key is no declared field has raised.
C6_Witness ==
    /\ result.op = "clone"
    /\ ~result.ok
    /\ Len(result.kw) = 2
    /\ result.kw[1][1] = fixed_rate
    /\ result.kw[1][2] # heap[result.src].fields[fixed_rate]
    /\ result.kw[2][1] = notAField

\* --------------------------------------------------------------------------
\* get_enum_value
\* --------------------------------------------------------------------------

\* the member of enum class t whose value is the string s, as Enum's
\* lookup by value finds it: <<member>>, or <<>> when there is none
EnumByValue(t, s) ==
    LET hits == {i \in DOMAIN EnumMembers(t) : EnumMembers(t)[i].v = s}
    IN  IF hits = {} THEN <<>>
        ELSE <<EnumV(t, EnumMembers(t)[CHOOSE i \in hits : TRUE].n)>>

\* EnumBase._missing_ as it would be if it compared the values as they
\* are, without lower()
EnumMissingCaseSensitive(t, key) ==
    IF EnumMembers(t) = <<>> THEN [ok |-> TRUE, val |-> NoneV]
    ELSE IF key.k # "str" THEN [ok |-> FALSE, err |-> "AttributeError"]
    ELSE LET hits == {i \in DOMAIN EnumMembers(t) : EnumMembers(t)[i].v = key.s}
         IN  IF hits = {} THEN [ok |-> TRUE, val |-> NoneV]
             ELSE [ok |-> TRUE,
                   val |-> EnumV(t, EnumMembers(t)[CHOOSE i \in hits : \A j \in hits : i <= j].n)]

\* EnumBase._missing_(cls, key): the first member, in declaration order,
\* with m.value.lower() == key.lower(), else None; key.lower() raises
\* AttributeError for a key that is not a string
EnumMissing(t, key) ==
    IF EnumMembers(t) = <<>> THEN [ok |-> TRUE, val |-> NoneV]
    ELSE IF key.k # "str" THEN [ok |-> FALSE, err |-> "AttributeError"]
    ELSE LET hits == {i \in DOMAIN EnumMembers(t) :
                         StrLower(EnumMembers(t)[i].v) = StrLower(key.s)}
         IN  IF hits = {} THEN [ok |-> TRUE, val |-> NoneV]
             ELSE [ok |-> TRUE,
                   val |-> EnumV(t, EnumMembers(t)[CHOOSE i \in hits : \A j \in hits : i <= j].n)]

\* enum_type(value): the member with that value, else what _missing_
\* finds; ValueError when _missing_ returns None, and an exception of
\* _missing_ goes on to the caller
EnumCall(t, value) ==
    LET Missing(missing) ==
            IF ~missing.ok THEN missing
            ELSE IF missing.val = NoneV THEN [ok |-> FALSE, err |-> "ValueError"]
            ELSE missing
        Exact(exact) ==
            IF exact # <<>> THEN [ok |-> TRUE, val |-> exact[1]]
            ELSE Missing(EnumMissing(t, value))
    IN  Exact(IF value.k = "str" THEN EnumByValue(t, value.s) ELSE <<>>)

\* get_enum_value(enum_type, value)
GetEnumValue(t, value) ==
    IF value = NoneV \/ value = StrV(StrNone) THEN [ok |-> TRUE, val |-> NoneV]
    ELSE IF value.k = "enum" /\ value.t = t THEN [ok |-> TRUE, val |-> value]
    ELSE LET Made(made) ==
                 IF made.ok THEN made
                 ELSE IF made.err = "ValueError" THEN [ok |-> TRUE, val |-> value]
                 ELSE made
         IN  Made(EnumCall(t, value))

\* the members of all enum classes
AllMembers == UNION {{EnumV(t, EnumMembers(t)[i].n) : i \in DOMAIN EnumMembers(t)} : t \in EnumTypes}

\* the values of all members of all enum classes
MemberValues == UNION {{EnumMembers(t)[i].v : i \in DOMAIN EnumMembers(t)} : t \in EnumTypes}

\* str.upper()
StrUpper(s) == [i \in DOMAIN s |-> UpperChar(s[i])]

\* raw strings handed to get_enum_value: every member value as declared,
\* in lower and in upper case, 'None' in three spellings, and a string that
\* is no member of any enum class
RawStrings ==
    MemberValues \cup {StrLower(s) : s \in MemberValues} \cup {StrUpper(s) : s \in MemberValues}
        \cup {StrNone, StrLower(StrNone), StrUpper(StrNone),
              <<"S","o","m","e","F","u","t","u","r","e","V","a","l","u","e">>}

\* raw values handed to get_enum_value: None, strings, numbers, a
\* mapping, and existing members
RawEnumValues ==
    {NoneV} \cup {StrV(s) : s \in RawStrings} \cup {IntV(i) : i \in 0..MaxVal}
        \cup {DictV(EmptyDict)} \cup AllMembers

InitEnum ==
    /\ heap = [id \in ObjIds |-> NoObj]
    /\ result = [op |-> "init"]
    /\ InitStatics

\* get_enum_value(t, raw)
EnumCoerce(t, raw) ==
    /\ UNCHANGED statics
    /\ heap' = heap
    /\ LET r == GetEnumValue(t, raw)
       IN  result' = [op |-> "get_enum_value", t |-> t, raw |-> raw, ok |-> r.ok,
                      val |-> IF r.ok THEN r.val ELSE NoneV]

NextEnum == \E t \in EnumTypes : \E raw \in RawEnumValues : EnumCoerce(t, raw)

SpecEnum == InitEnum /\ [][NextEnum]_vars

\* the members of enum class t whose value is s exactly
ExactMembers(t, s) ==
    {EnumV(t, EnumMembers(t)[i].n) : i \in {j \in DOMAIN EnumMembers(t) : EnumMembers(t)[j].v = s}}

\* the members of enum class t whose value is s but for the case
CaselessMembers(t, s) ==
    {EnumV(t, EnumMembers(t)[i].n) :
        i \in {j \in DOMAIN EnumMembers(t) : StrLower(EnumMembers(t)[j].v) = StrLower(s)}}

\* C9: get_enum_value raises for no enum class and no raw value.
C9_EnumCoercionNeverThrows ==
    result.op = "get_enum_value" => result.ok

\* C10 as stated: for every raw string the result is the member whose
\* value is the string, else a member whose value is the string but for
\* the case, else the raw string itself.
C10_EnumResolutionAnyString ==
    (result.op = "get_enum_value" /\ result.raw.k = "str")
    => /\ result.ok
       /\ IF ExactMembers(result.t, result.raw.s) # {}
          THEN result.val \in ExactMembers(result.t, result.raw.s)
          ELSE IF CaselessMembers(result.t, result.raw.s) # {}
               THEN result.val \in CaselessMembers(result.t, result.raw.s)
               ELSE result.val = result.raw

\* C10 amended: the same for every raw string other than 'None'; the
\* string 'None' gives None.
C10_EnumResolution ==
    (result.op = "get_enum_value" /\ result.raw.k = "str")
    => /\ result.ok
       /\ IF result.raw.s = StrNone
          THEN result.val = NoneV
          ELSE IF ExactMembers(result.t, result.raw.s) # {}
               THEN result.val \in ExactMembers(result.t, result.raw.s)
               ELSE IF CaselessMembers(result.t, result.raw.s) # {}
                    THEN result.val \in CaselessMembers(result.t, result.raw.s)
                    ELSE result.val = result.raw

\* C10 witness: a raw string that is no member's value, but is one but
\* for the case, was resolved to a member.
C10_Witness ==
    /\ result.op = "get_enum_value"
    /\ result.raw.k = "str"
    /\ ExactMembers(result.t, result.raw.s) = {}
    /\ CaselessMembers(result.t, result.raw.s) # {}
    /\ result.val.k = "enum"

\* --------------------------------------------------------------------------
\* Dates and times.  DateV(d) is the d-th day of January 1970, counted
\* from 0; DateTimeV(n) is n microseconds into the first second of day
\* n \div DayUnit, local time, without a time zone; AwareV(n) is the same
\* instant with the time zone UTC.
\* --------------------------------------------------------------------------

\* the microseconds of one second, and the step from one day's first
\* second to the next in DateTimeV
DayUnit == 1000000

\* days the calendar of the model has: 1970-01-01 .. 1970-01-09
Days == 0..8

AwareV(n) == [k |-> "datetime", dt |-> n, tz |-> "UTC"]

DigitChars == <<"0","1","2","3","4","5","6","7","8","9">>

\* the decimal digits of n, w of them, zero padded
RECURSIVE DigitsOf(_, _)
DigitsOf(n, w) ==
    IF w = 0 THEN <<>> ELSE DigitsOf(n \div 10, w - 1) \o <<DigitChars[(n % 10) + 1]>>

\* the number a string of decimal digits spells
RECURSIVE NumberOf(_)
NumberOf(s) ==
    IF s = <<>> THEN 0
    ELSE 10 * NumberOf(SubSeq(s, 1, Len(s) - 1))
         + ((CHOOSE i \in DOMAIN DigitChars : DigitChars[i] = s[Len(s)]) - 1)

\* date.isoformat() of day d
IsoDate(d) == <<"1","9","7","0","-","0","1","-","0">> \o DigitsOf(d + 1, 1)

\* datetime.isoformat() of a datetime without time zone: the
\* microseconds are written, six digits, only when they are not zero
IsoFormat(n) ==
    IsoDate(n \div DayUnit) \o <<"T","0","0",":","0","0",":","0","0">>
        \o (IF n % DayUnit = 0 THEN <<>> ELSE <<".">> \o DigitsOf(n % DayUnit, 6))

\* datetime.fromtimestamp(ms / 1000), for a process whose local time is
\* UTC and ms within the first second
FromTimestampMs(ms) == DateTimeV(ms * 1000)

\* Base.__from_dict, lines 194-198: a string that ends in a point, digits
\* and Z keeps six of more than six digits
TruncateSubSeconds(s) ==
    LET n    == Len(s)
        dots == {i \in 1..(n - 1) : s[i] = "." /\ \A j \in (i + 1)..(n - 1) : s[j] \in Digits}
    IN  IF n >= 2 /\ s[n] = "Z" /\ dots # {}
        THEN LET i == CHOOSE x \in dots : TRUE
             IN  IF (n - 1) - i > 6 THEN SubSeq(s, 1, i + 6) \o <<"Z">> ELSE s
        ELSE s

\* dateutil.parser.isoparse(s) on the calendar of the model: a date, or a
\* date and the time 00:00:00 with an optional fraction of a second (cut
\* after six digits) and an optional Z; ValueError for anything else
IsoParse(s) ==
    LET n == Len(s)
        bad == [ok |-> FALSE, err |-> "ValueError"]
    IN  IF n < 10 \/ \A d \in Days : SubSeq(s, 1, 10) # IsoDate(d) THEN bad
        ELSE LET day   == CHOOSE d \in Days : SubSeq(s, 1, 10) = IsoDate(d)
                 aware == s[n] = "Z"
                 m     == IF aware THEN n - 1 ELSE n
             IN  IF n = 10 THEN [ok |-> TRUE, val |-> DateTimeV(day * DayUnit)]
                 ELSE IF m < 19 \/ SubSeq(s, 11, 19) # <<"T","0","0",":","0","0",":","0","0">> THEN bad
                 ELSE IF m = 19
                      THEN [ok |-> TRUE,
                            val |-> IF aware THEN AwareV(day * DayUnit) ELSE DateTimeV(day * DayUnit)]
                 ELSE IF m = 20 \/ s[20] # "." \/ \E j \in 21..m : s[j] \notin Digits THEN bad
                 ELSE LET frac == SubSeq(s, 21, IF m > 26 THEN 26 ELSE m)
                          us   == NumberOf(frac \o [j \in 1..(6 - Len(frac)) |-> "0"])
                      IN  [ok |-> TRUE,
                           val |-> IF aware THEN AwareV(day * DayUnit + us)
                                   ELSE DateTimeV(day * DayUnit + us)]

\* datetime.date()
DateOf(v) == DateV(v.dt \div DayUnit)

\* --------------------------------------------------------------------------
\* as_dict and from_dict
\* --------------------------------------------------------------------------

\* Base.as_dict as it would be without the filter on None
AsDictKeepingNone(h, id, as_camel_case) ==
    LET raw_properties == Properties(h[id].cls)
    IN  [key \in {IF as_camel_case THEN Camelize(p) ELSE p : p \in raw_properties} |->
            h[id].fields[CHOOSE p \in raw_properties :
                            (IF as_camel_case THEN Camelize(p) ELSE p) = key]]

\* Base.as_dict(as_camel_case): the properties, camelized or not, zipped
\* with their values, without those whose value is None
AsDict(h, id, as_camel_case) ==
    LET raw_properties == {p \in Properties(h[id].cls) : h[id].fields[p] # NoneV}
    IN  [key \in {IF as_camel_case THEN Camelize(p) ELSE p : p \in raw_properties} |->
            h[id].fields[CHOOSE p \in raw_properties :
                            (IF as_camel_case THEN Camelize(p) ELSE p) = key]]

\* a call that raised err, and a call that returned val
Raised(h, err) == [ok |-> FALSE, err |-> err, heap |-> h, val |-> NoneV]

Returned(h, val) == [ok |-> TRUE, err |-> "", heap |-> h, val |-> val]

\* bool(value) is False
Falsy(v) ==
    \/ v = NoneV
    \/ v = IntV(0)
    \/ v = StrV(<<>>)
    \/ v = TupleV(<<>>)
    \/ v = DictV(EmptyDict)

\* the classes of gs_quant.target.instrument that are instruments, in the
\* order of inspect.getmembers (by name)
TargetInstruments == <<"Forward", "Swap">>

\* cls.default_instance(): every required argument None
DefaultInstance(cls) ==
    GeneratedInit(cls, [a \in {ParamOf(RequiredArgs(cls)[i]) : i \in DOMAIN RequiredArgs(cls)} |-> NoneV]).obj

\* (instrument.asset_class, instrument.type) of the default instance
DiscriminantsOf(cls) ==
    <<DefaultInstance(cls).fields[asset_class], DefaultInstance(cls).fields[type]>>

\* Instrument.asset_class_and_type_to_instrument(): (Cash, Currency) is
\* Forward, and then every instrument class under the discriminants of
\* its default instance, a later class replacing an earlier one
Registry ==
    LET keys == {<<EnumV("AssetClass", "Cash"), EnumV("AssetType", "Currency")>>}
                    \cup {DiscriminantsOf(TargetInstruments[i]) : i \in DOMAIN TargetInstruments}
    IN  [key \in keys |->
            LET is == {i \in DOMAIN TargetInstruments : DiscriminantsOf(TargetInstruments[i]) = key}
            IN  IF is = {} THEN "Forward"
                ELSE TargetInstruments[CHOOSE i \in is : \A j \in is : j <= i]]

\* the keys of a dict as str values, in the order iteration gives them
RECURSIVE KeysOf(_)
KeysOf(ks) ==
    IF ks = {} THEN <<>>
    ELSE LET x == CHOOSE y \in ks : TRUE
         IN  <<StrV(x)>> \o KeysOf(ks \ {x})

\* what iterating over a value yields: the items of a tuple, the
\* characters of a str, the keys of a dict; <<FALSE>> when the value is
\* not iterable
IterItems(v) ==
    CASE v.k = "tuple" -> <<TRUE, v.items>>
      [] v.k = "str"   -> <<TRUE, [i \in DOMAIN v.s |-> StrV(<<v.s[i]>>)]>>
      [] v.k = "dict"  -> <<TRUE, KeysOf(DOMAIN v.d)>>
      [] OTHER         -> <<FALSE>>

RECURSIVE ClsFromDict(_, _, _)
RECURSIVE BaseFromDict(_, _, _)
RECURSIVE RequiredLoop(_, _, _, _, _)
RECURSIVE FieldsFromDict(_, _, _, _)
RECURSIVE Coerce(_, _, _)
RECURSIVE CoerceItems(_, _, _, _, _)

\* Base.__from_dict, lines 209-221, from item i on: the items of a
\* tuple property, each coerced by the declared kind of the items
CoerceItems(h, item, items, i, acc) ==
    IF i > Len(items) THEN Returned(h, TupleV(acc))
    ELSE IF item.kind = "base"
         THEN IF items[i].k \in {"ref", "enum"}
              THEN CoerceItems(h, item, items, i + 1, Append(acc, items[i]))
              ELSE LET Built(made) ==
                           IF made.ok
                           THEN CoerceItems(made.heap, item, items, i + 1, Append(acc, made.val))
                           ELSE made
                   IN  Built(ClsFromDict(h, item.cls, items[i]))
         ELSE IF item.kind = "enum"
              THEN LET Resolved(e) ==
                           IF e.ok THEN CoerceItems(h, item, items, i + 1, Append(acc, e.val))
                           ELSE Raised(h, e.err)
                   IN  Resolved(GetEnumValue(item.t, items[i]))
              ELSE CoerceItems(h, item, items, i + 1, Append(acc, items[i]))

\* Base.__from_dict, lines 182-223: the value assigned for a raw value
\* that is not None, by the declared kind of the property
Coerce(h, kind, raw) ==
    LET Parsed(parsed, date) ==
            IF parsed.ok THEN Returned(h, IF date THEN DateOf(parsed.val) ELSE parsed.val)
            ELSE Raised(h, parsed.err)
        Resolved(e) == IF e.ok THEN Returned(h, e.val) ELSE Raised(h, e.err)
        Iterated(it) == IF it[1] THEN CoerceItems(h, kind.item, it[2], 1, <<>>)
                        ELSE Raised(h, "TypeError")
    IN  CASE kind.kind = "prim" -> Returned(h, raw)
          [] kind.kind = "datetime" ->
                IF raw.k = "int" THEN Returned(h, StrV(IsoFormat(FromTimestampMs(raw.i).dt)))
                ELSE IF raw.k # "str" THEN Raised(h, "TypeError")
                ELSE Parsed(IsoParse(TruncateSubSeconds(raw.s)), FALSE)
          [] kind.kind = "date" ->
                IF raw.k # "str" THEN Raised(h, "TypeError")
                ELSE Parsed(IsoParse(raw.s), TRUE)
          [] kind.kind = "enum" -> Resolved(GetEnumValue(kind.t, raw))
          [] kind.kind = "base" ->
                IF raw.k = "ref" THEN Returned(h, raw) ELSE ClsFromDict(h, kind.cls, raw)
          [] kind.kind = "tuple" -> Iterated(IterItems(raw))

\* Base._from_dict, lines 229-241, from required argument i on: each
\* argument is popped from the dict under the name of the parameter, a
\* dict for a nested class is built, a value for an enum class is
\* coerced.  kw are the arguments so far, d the dict as the pops left it.
RequiredLoop(h, cls, d, i, kw) ==
    LET out(ok, err, heap2, d2, kw2) ==
            [ok |-> ok, err |-> err, heap |-> heap2, d |-> d2, kw |-> kw2]
        Step(arg, prop_type, value, rest) ==
            LET Built(made) ==
                    IF made.ok
                    THEN RequiredLoop(made.heap, cls, rest, i + 1, Append(kw, <<arg, made.val>>))
                    ELSE out(FALSE, made.err, h, rest, kw)
                Resolved(e) ==
                    IF e.ok
                    THEN RequiredLoop(h, cls, rest, i + 1, Append(kw, <<arg, e.val>>))
                    ELSE out(FALSE, e.err, h, rest, kw)
            IN  IF prop_type.kind = "base" /\ value.k = "dict"
                THEN Built(ClsFromDict(h, prop_type.cls, value))
                ELSE IF prop_type.kind = "enum"
                     THEN Resolved(GetEnumValue(prop_type.t, value))
                     ELSE RequiredLoop(h, cls, rest, i + 1, Append(kw, <<arg, value>>))
        Pop(prop_name, arg) ==
            Step(arg, ClassDecl(cls)[prop_name], DictGet(d, arg, NoneV), DictWithout(d, arg))
        Arg(prop_name) == Pop(prop_name, ParamOf(prop_name))
    IN  IF i > Len(RequiredArgs(cls)) THEN out(TRUE, "", h, d, kw)
        ELSE Arg(RequiredArgs(cls)[i])

\* Base.__from_dict(values) on instance id, for the properties ps still
\* to do: the value under the canonical key, else under the wire key; a
\* value that is not None is coerced and assigned
FieldsFromDict(h, id, d, ps) ==
    LET Prop(prop) ==
            LET Assigned(set) ==
                    IF set.ok THEN FieldsFromDict(set.heap, id, d, ps \ {prop})
                    ELSE Raised(h, set.err)
                Coerced(c) ==
                    IF c.ok THEN Assigned(SetAttr(c.heap, id, prop, c.val)) ELSE c
                Value(prop_value) ==
                    IF prop_value = NoneV THEN FieldsFromDict(h, id, d, ps \ {prop})
                    ELSE Coerced(Coerce(h, ClassDecl(h[id].cls)[prop], prop_value))
            IN  Value(DictGet(d, prop, DictGet(d, Camelize(prop), NoneV)))
    IN  IF ps = {} THEN Returned(h, RefV(id))
        ELSE Prop(CHOOSE p \in ps : TRUE)

\* Base._from_dict(values): the required arguments, cls(**required),
\* then instance.__from_dict(values).  A value that is no dict has
\* neither pop nor get.
BaseFromDict(h, cls, raw) ==
    LET Filled(filled) == IF filled.ok THEN filled ELSE Raised(h, filled.err)
        Made(made, d) ==
            IF made.ok THEN Filled(FieldsFromDict(made.heap, made.id, d, Properties(cls)))
            ELSE Raised(h, made.err)
        Required(req) ==
            IF req.ok THEN Made(NewObj(req.heap, cls, req.kw), req.d)
            ELSE Raised(h, req.err)
        Bare(made) == Returned(made.heap, RefV(made.id))
    IN  IF raw.k # "dict"
        THEN IF RequiredArgs(cls) # <<>> \/ Properties(cls) # {}
             THEN Raised(h, "AttributeError")
             ELSE Bare(NewObj(h, cls, <<>>))
        ELSE Required(RequiredLoop(h, cls, raw.d, 1, <<>>))

\* the class of the default representation, gs_quant.instrument.Security;
\* its from_dict builds a Security from the dict
DefaultRepresentation == "Security"

\* Instrument.from_dict(values) up to the class it hands the dict to,
\* reg being what asset_class_and_type_to_instrument() returned: none when
\* it returns None, else the class and the dict as the pops left it
InstrumentDispatch(reg, raw) ==
    LET out(ok, err, none, cls, values) ==
            [ok |-> ok, err |-> err, none |-> none, cls |-> cls, values |-> values]
        Looked(key, values) ==
            IF key \in DOMAIN reg THEN out(TRUE, "", FALSE, reg[key], values)
            ELSE out(TRUE, "", FALSE, DefaultRepresentation, values)
        Type(a, t) ==
            IF t.ok
            THEN Looked(<<a.val, t.val>>, DictV(DictWithout(DictWithout(raw.d, asset_class), type)))
            ELSE out(FALSE, t.err, FALSE, "", raw)
        AssetClass(a) ==
            IF ~a.ok THEN out(FALSE, a.err, FALSE, "", raw)
            ELSE IF type \notin DOMAIN raw.d THEN out(FALSE, "KeyError", FALSE, "", raw)
            ELSE Type(a, GetEnumValue("AssetType", raw.d[type]))
    IN  IF Falsy(raw) THEN out(TRUE, "", TRUE, "", raw)
        ELSE IF raw.k # "dict" THEN out(FALSE, "AttributeError", FALSE, "", raw)
        ELSE IF asset_class \notin DOMAIN raw.d THEN out(FALSE, "KeyError", FALSE, "", raw)
        ELSE AssetClass(GetEnumValue("AssetClass", raw.d[asset_class]))

\* Instrument.from_dict(values) from the registry on: the lookup in reg
\* and the _from_dict of the class found, or Security.from_dict
RegistryFromDict(reg, h, raw) ==
    LET Via(via) ==
            IF ~via.ok THEN Raised(h, via.err)
            ELSE IF via.none THEN Returned(h, NoneV)
            ELSE BaseFromDict(h, via.cls, via.values)
    IN  Via(InstrumentDispatch(reg, raw))

\* cls.from_dict(values), by the class it is called on: Instrument and
\* the generated instrument classes have Instrument.from_dict, the others
\* Base.from_dict, which is cls._from_dict
ClsFromDict(h, cls, raw) ==
    IF cls = "Instrument" \/ cls \in InstrumentClasses \ {DefaultRepresentation}
    THEN RegistryFromDict(Registry, h, raw)
    ELSE BaseFromDict(h, cls, raw)

\* Instrument.from_dict(values)
InstrumentFromDict(h, raw) == ClsFromDict(h, "Instrument", raw)

\* --------------------------------------------------------------------------
\* Dictionaries: one Leg and one instance of a class with fields of
\* every declared kind, set or not; as_dict in either spelling, and
\* cls.from_dict of what as_dict returned
\* --------------------------------------------------------------------------

\* the classes whose instances are turned into dictionaries
DictClasses == {"Trade", "Fixing", "Swap", "Security"}

\* the values a field of a declared kind is constructed with; the Leg of
\* the population is in slot 1
InitValues(kind) ==
    {NoneV} \cup
    CASE kind.kind = "prim"     -> {IntV(i) : i \in 0..MaxVal}
      [] kind.kind = "datetime" -> {DateTimeV(1000 * i) : i \in 0..MaxVal}
      [] kind.kind = "date"     -> {DateV(i) : i \in 0..MaxVal}
      [] kind.kind = "enum"     -> {EnumV(kind.t, EnumMembers(kind.t)[i].n) : i \in DOMAIN EnumMembers(kind.t)}
      [] kind.kind = "base"     -> {RefV(1)}
      [] kind.kind = "tuple"    -> {TupleV(<<>>), TupleV(<<RefV(1)>>)}

\* the keyword arguments that give each of the properties ps of class
\* cls a value
RECURSIVE InitKwargs(_, _)
InitKwargs(cls, ps) ==
    IF ps = {} THEN {<<>>}
    ELSE LET p == CHOOSE q \in ps : TRUE
         IN  {<< <<p, v>> >> \o kw : v \in InitValues(ClassDecl(cls)[p]), kw \in InitKwargs(cls, ps \ {p})}

InitDict ==
    \E r \in PrimValues, cls \in DictClasses :
        \E kw \in InitKwargs(cls, InitProps(cls)) :
            /\ heap = NewObj(NewObj([id \in ObjIds |-> NoObj], "Leg", << <<rate, r>> >>).heap,
                             cls, kw).heap
            /\ result = [op |-> "init"]
            /\ InitStatics

\* obj.as_dict(as_camel_case)
ObjAsDict(id, as_camel_case) ==
    /\ UNCHANGED statics
    /\ heap' = heap
    /\ result' = [op |-> "as_dict", src |-> id, camel |-> as_camel_case,
                  dict |-> AsDict(heap, id, as_camel_case)]

\* type(obj).from_dict(obj.as_dict(as_camel_case))
ObjRoundTrip(id, as_camel_case) ==
    /\ HasRoom(heap)
    /\ LET Done(r) ==
               /\ UNCHANGED statics
               /\ heap' = r.heap
               /\ result' = [op |-> "round_trip", src |-> id, camel |-> as_camel_case,
                             ok |-> r.ok, val |-> r.val]
       IN  Done(ClsFromDict(heap, heap[id].cls, DictV(AsDict(heap, id, as_camel_case))))

NextDict ==
    /\ result.op # "round_trip"
    /\ \/ \E id \in Live(heap) : \E c \in BOOLEAN : ObjAsDict(id, c)
       \/ \E id \in Live(heap) : \E c \in BOOLEAN : ObjRoundTrip(id, c)

SpecDict == InitDict /\ [][NextDict]_vars

\* every declared field of instance id has a value
FullyPopulated(h, id) == \A p \in Properties(h[id].cls) : h[id].fields[p] # NoneV

\* C1: round trip.  For every fully populated instance o of a declared
\* class T, T.from_dict(o.as_dict(as_camel_case)) returns an instance of T
\* that equals o field for field, in either spelling.
C1_RoundTrip ==
    (result.op = "round_trip" /\ FullyPopulated(heap, result.src))
    => /\ result.ok
       /\ result.val.k = "ref"
       /\ heap[result.val.r].cls = heap[result.src].cls
       /\ \A p \in Properties(heap[result.src].cls) :
             PyEq(heap, heap[result.val.r].fields[p], heap[result.src].fields[p])

SomeFutureValue == <<"S","o","m","e","F","u","t","u","r","e","V","a","l","u","e">>

\* the entries a payload has for a field: none, or one key of keys with
\* one value of values
EntriesFor(keys, values) ==
    {EmptyDict} \cup {[x \in {key} |-> v] : key \in keys, v \in values}

\* the dict with the entries of both (the keys are disjoint)
DictMerge(d, e) == [x \in (DOMAIN d) \cup (DOMAIN e) |-> IF x \in DOMAIN d THEN d[x] ELSE e[x]]

\* raw values of a discriminant of enum class t: every member, its value
\* as declared and in lower case, an unknown string and numbers
RawDiscriminants(t) ==
    {EnumV(t, EnumMembers(t)[i].n) : i \in DOMAIN EnumMembers(t)}
        \cup {StrV(EnumMembers(t)[i].v) : i \in DOMAIN EnumMembers(t)}
        \cup {StrV(StrLower(EnumMembers(t)[i].v)) : i \in DOMAIN EnumMembers(t)}
        \cup {StrV(SomeFutureValue)}
        \cup {IntV(i) : i \in 0..MaxVal}

\* the payloads handed to Instrument.from_dict
InstrumentPayloads ==
    {DictMerge(a, DictMerge(t, DictMerge(f, DictMerge(q, k)))) :
        a \in EntriesFor({asset_class, Camelize(asset_class)}, RawDiscriminants("AssetClass")),
        t \in EntriesFor({type}, RawDiscriminants("AssetType")),
        f \in EntriesFor({fixed_rate, Camelize(fixed_rate)}, {IntV(i) : i \in 0..MaxVal}),
        q \in EntriesFor({pay_or_receive, Camelize(pay_or_receive)},
                         {StrV(EnumMembers("PayReceive")[1].v)}),
        k \in EntriesFor({ticker}, {IntV(0)})}

InitInstr ==
    /\ heap = [id \in ObjIds |-> NoObj]
    /\ result = [op |-> "init"]
    /\ InitStatics

\* Instrument.from_dict(values)
InstrFromDict(values) ==
    LET Done(r) ==
            /\ UNCHANGED statics
            /\ heap' = r.heap
            /\ result' = [op |-> "instrument_from_dict", values |-> values,
                          ok |-> r.ok, err |-> r.err, val |-> r.val]
    IN  Done(InstrumentFromDict(heap, DictV(values)))

\* one call in a run
NextInstr ==
    /\ result.op = "init"
    /\ \E values \in InstrumentPayloads : InstrFromDict(values)

SpecInstr == InitInstr /\ [][NextInstr]_vars

\* the value a payload has for a field, under its canonical key or else
\* under its wire key; None when it has neither
PayloadGet(values, p) == DictGet(values, p, DictGet(values, Camelize(p), NoneV))

\* the members of enum class t a raw value stands for: itself, or those
\* whose value is the string, exactly or but for the case
MembersMeant(t, raw) ==
    CASE raw.k = "enum" -> IF raw.t = t THEN {raw} ELSE {}
      [] raw.k = "str"  -> CaselessMembers(t, raw.s)
      [] OTHER          -> {}

\* the instrument classes registered for the discriminants of a payload
RegisteredFor(values) ==
    {Registry[key] : key \in {x \in DOMAIN Registry :
                                 /\ x[1] \in MembersMeant("AssetClass", PayloadGet(values, asset_class))
                                 /\ x[2] \in MembersMeant("AssetType", PayloadGet(values, type))}}

\* C7: polymorphic fallback.  For every payload that is not empty and
\* whose discriminants, unknown or missing, match no registered
\* instrument class, Instrument.from_dict returns a Security and does not
\* raise.
C7_FallbackToSecurity ==
    (/\ result.op = "instrument_from_dict"
     /\ result.values # EmptyDict
     /\ RegisteredFor(result.values) = {})
    => /\ result.ok
       /\ result.val.k = "ref"
       /\ heap[result.val.r].cls = "Security"

\* C8: dispatch on a wire-format payload.  A payload with the asset
\* class under its wire key, the type, and fixedRate, whose discriminants
\* match a registered class that has the field, gives an instance of that
\* class whose fixed_rate is the payload's fixedRate.
C8_WirePayloadDispatch ==
    (/\ result.op = "instrument_from_dict"
     /\ Camelize(asset_class) \in DOMAIN result.values
     /\ asset_class \notin DOMAIN result.values
     /\ Camelize(fixed_rate) \in DOMAIN result.values
     /\ fixed_rate \notin DOMAIN result.values
     /\ \E c \in RegisteredFor(result.values) : fixed_rate \in Properties(c))
    => /\ result.ok
       /\ result.val.k = "ref"
       /\ heap[result.val.r].cls \in RegisteredFor(result.values)
       /\ heap[result.val.r].fields[fixed_rate] = result.values[Camelize(fixed_rate)]

\* --------------------------------------------------------------------------
\* Construction from keywords and from dictionaries: one call in a run,
\* cls(**kw) with one field under two spellings, or cls.from_dict(values)
\* with two fields, each absent, under its canonical key, under its wire
\* key, or under both
\* --------------------------------------------------------------------------

\* the dictionaries handed to cls.from_dict
RawDicts(cls) ==
    LET focus == CASE cls = "Fixing" -> <<time, pay_or_receive>>
                   [] cls = "Event"  -> <<expiry_date, pay_or_receive>>
                   [] cls = "Trade"  -> <<fixed_rate, leg>>
        RawValuesFor(kind) ==
            CASE kind.kind = "prim" -> {IntV(i) : i \in 0..MaxVal}
              [] kind.kind = "datetime" ->
                    {IntV(i) : i \in 0..MaxVal}
                        \cup {StrV(IsoFormat(0)),
                              StrV(IsoFormat(0) \o <<".","1","2","3","4","5","6","7","Z">>),
                              StrV(SomeFutureValue)}
              [] kind.kind = "date" -> {StrV(IsoDate(0)), StrV(IsoFormat(DayUnit))}
              [] kind.kind = "enum" ->
                    {StrV(EnumMembers(kind.t)[1].v), StrV(StrLower(EnumMembers(kind.t)[2].v)),
                     StrV(StrNone), IntV(0)}
              [] kind.kind = "base" -> {DictV([x \in {rate} |-> IntV(0)]), DictV(EmptyDict)}
        SpellingsFor(q, values) ==
            EntriesFor({q, Camelize(q)}, values)
                \cup {DictMerge([x \in {q} |-> v], [x \in {Camelize(q)} |-> w]) :
                        v \in values, w \in values}
    IN  {DictMerge(a, b) :
            a \in SpellingsFor(focus[1], RawValuesFor(ClassDecl(cls)[focus[1]])),
            b \in SpellingsFor(focus[2], RawValuesFor(ClassDecl(cls)[focus[2]]))}

\* cls.from_dict(values)
ObjFromDict(cls, values) ==
    LET Done(r) ==
            /\ UNCHANGED statics
            /\ heap' = r.heap
            /\ result' = [op |-> "from_dict", cls |-> cls, values |-> values,
                          ok |-> r.ok, err |-> r.err, val |-> r.val]
    IN  Done(ClsFromDict(heap, cls, DictV(values)))

\* cls(**kw)
ObjConstruct(cls, kw) ==
    LET Done(r) ==
            /\ UNCHANGED statics
            /\ heap' = r.heap
            /\ result' = [op |-> "construct", cls |-> cls, kw |-> kw, ok |-> r.ok, id |-> r.id]
    IN  Done(NewObj(heap, cls, kw))

NextFrom ==
    /\ result.op = "init"
    /\ \/ \E cls \in {"Fixing", "Event", "Trade"} :
            \E values \in RawDicts(cls) : ObjFromDict(cls, values)
       \/ \E q \in Properties("Trade") :
            \E k1, k2 \in {q, Camelize(q), CamelizeFrom(q, 1)} :
               \E v1, v2 \in {IntV(i) : i \in 0..MaxVal} :
                  /\ k1 # k2
                  /\ ObjConstruct("Trade", << <<k1, v1>>, <<k2, v2>> >>)

SpecFrom == InitObj /\ [][NextFrom]_vars

\* C11: ambiguous field.  An input that has a field under its canonical
\* and under its wire spelling, with different values, raises and leaves
\* no object, for cls(**kw) in either order of the keys and for
\* cls.from_dict(values).
C11_AmbiguousFieldRaises ==
    /\ (/\ result.op = "construct"
        /\ \E i, j \in DOMAIN result.kw :
              /\ result.kw[i][1] \in Properties(result.cls)
              /\ result.kw[j][1] = Camelize(result.kw[i][1])
              /\ result.kw[j][1] # result.kw[i][1]
              /\ result.kw[j][2] # result.kw[i][2])
       => (~result.ok /\ Live(heap) = {})
    /\ (/\ result.op = "from_dict"
        /\ \E q \in Properties(result.cls) :
              /\ Camelize(q) # q
              /\ q \in DOMAIN result.values
              /\ Camelize(q) \in DOMAIN result.values
              /\ result.values[q] # result.values[Camelize(q)])
       => (~result.ok /\ Live(heap) = {})

\* C12: no silent merge.  cls(**kw) with two distinct wire names that
\* normalise to the same canonical name raises.
C12_NoSilentMerge ==
    (/\ result.op = "construct"
     /\ \E i, j \in DOMAIN result.kw :
           /\ result.kw[i][1] # result.kw[j][1]
           /\ result.kw[i][1] \notin Properties(result.cls)
           /\ result.kw[j][1] \notin Properties(result.cls)
           /\ Underscore(NormaliseArg(result.kw[i][1])) = Underscore(NormaliseArg(result.kw[j][1])))
    => ~result.ok

\* C16: date-time coercion.  from_dict of a dictionary whose only key is
\* a date-time field, with an integer of epoch milliseconds, an ISO-8601
\* string, or an ISO-8601 string with seven fractional digits and Z,
\* returns an object whose field holds a date-time.
C16_DateTimeCoercion ==
    (/\ result.op = "from_dict"
     /\ DOMAIN result.values = {time}
     /\ ClassDecl(result.cls)[time].kind = "datetime"
     /\ \/ result.values[time].k = "int"
        \/ result.values[time] \in
              {StrV(IsoFormat(0)),
               StrV(IsoFormat(0) \o <<".","1","2","3","4","5","6","7","Z">>)})
    => /\ result.ok
       /\ heap[result.val.r].fields[time].k = "datetime"

\* C17: required-field construction.  from_dict of a dictionary whose
\* only key is a required field, under its canonical or under its wire
\* spelling, with a raw value the rules for an optional field of that kind
\* accept, returns an object whose field holds what those rules give.
C17_RequiredFieldCoerced ==
    \A q \in Properties(IF result.op = "from_dict" THEN result.cls ELSE "Marker") :
        (/\ \E i \in DOMAIN RequiredArgs(result.cls) : RequiredArgs(result.cls)[i] = q
         /\ DOMAIN result.values \in {{q}, {Camelize(q)}}
         /\ Coerce(heap, ClassDecl(result.cls)[q], PayloadGet(result.values, q)).ok)
        => /\ result.ok
           /\ heap[result.val.r].fields[q]
                 = Coerce(heap, ClassDecl(result.cls)[q], PayloadGet(result.values, q)).val

\* C18: never overwrite with null.  After a from_dict that returned, every
\* field that was not None when the constructor had run is not None.
C18_NeverOverwriteWithNull ==
    (result.op = "from_dict" /\ result.ok /\ result.val.k = "ref")
    => LET empty == [id \in ObjIds |-> NoObj]
           Constructed(made) ==
               \A q \in Properties(result.cls) :
                   made.heap[made.id].fields[q] # NoneV
                       => heap[result.val.r].fields[q] # NoneV
           Required(req) == Constructed(NewObj(req.heap, result.cls, req.kw))
       IN  Required(RequiredLoop(empty, result.cls, result.values, 1, <<>>))

\* --------------------------------------------------------------------------
\* The naming conversions on their own: one conversion of one name in a run
\* --------------------------------------------------------------------------

\* the longest name converted
NameLen == 3

\* the characters of the names converted: lowercase and uppercase letters
\* and the underscore, chosen so that a builtin (id) and a keyword (if) are
\* among the names
NameChars == {"i", "d", "f", "I", "_"}

\* the names of 1 to NameLen characters
FieldNames ==
    UNION {[1..n -> NameChars] : n \in 1..NameLen}

\* the key BaseMeta.__call__ stores the value of keyword arg under:
\* _normalise_arg, then inflection.underscore unless the name is all
\* uppercase
ToCanonical(x) ==
    LET Keyed(arg) == IF ~StrIsUpper(arg) THEN Underscore(arg) ELSE arg
    IN  Keyed(NormaliseArg(x))

\* the key as_dict(as_camel_case=True) gives property x
ToWire(x) == Camelize(x)

\* name x converted, converted again, and taken to the wire and back
ConvertName(x) ==
    /\ result' = [op        |-> "names",
                  x         |-> x,
                  canonical |-> ToCanonical(x),
                  twice     |-> ToCanonical(ToCanonical(x)),
                  wire      |-> ToWire(x),
                  back      |-> ToWire(ToCanonical(ToWire(x)))]
    /\ UNCHANGED <<heap, statics>>

NextNames ==
    /\ result.op = "init"
    /\ \E x \in FieldNames : ConvertName(x)

SpecNames == InitObj /\ [][NextNames]_vars

\* C13: converting a name to its canonical form twice gives what converting
\* it once gives, and a wire name taken to the canonical form and back to
\* the wire is the wire name again.
C13_IdempotentNaming ==
    result.op = "names" =>
        /\ result.twice = result.canonical
        /\ result.back = result.wire

\* --------------------------------------------------------------------------
\* properties() on the classes of a hierarchy, in any order
\* --------------------------------------------------------------------------

\* the class a class is derived from: FixedLeg is a Leg with one more
\* property, the instrument classes are Instruments
SuperClass(cls) ==
    CASE cls = "Priceable"  -> "Base"
      [] cls = "Instrument" -> "Priceable"
      [] cls \in InstrumentClasses -> "Instrument"
      [] cls = "FixedLeg"   -> "Leg"
      [] OTHER -> "Base"

\* cls.__properties read: the attribute of the first class along the
\* bases of cls that has one (Base has)
RECURSIVE ClassAttr(_, _)
ClassAttr(attrs, cls) ==
    IF attrs[cls] # <<>> THEN attrs[cls][1] ELSE ClassAttr(attrs, SuperClass(cls))

\* Base.properties() on cls: the attributes afterwards and the set returned
PropertiesCall(attrs, cls) ==
    IF ClassAttr(attrs, cls) = {}
    THEN [attrs |-> [attrs EXCEPT ![cls] = <<Properties(cls)>>], val |-> Properties(cls)]
    ELSE [attrs |-> attrs, val |-> ClassAttr(attrs, cls)]

\* cls.properties()
ClsProperties(cls) ==
    LET Done(r) == /\ class_properties' = r.attrs
                   /\ result' = [op |-> "properties", cls |-> cls, val |-> r.val]
    IN  /\ Done(PropertiesCall(class_properties, cls))
        /\ UNCHANGED <<heap, asset_class_and_type_to_instrument, threads,
                       current_is_set, resolution_info>>

NextProps == \E cls \in SchemaClasses : ClsProperties(cls)

SpecProps == InitObj /\ [][NextProps]_vars

\* C14: properties() of a class returns the public property names declared
\* for the class, own and inherited, whichever classes were asked before.
C14_PerTypeSchema ==
    result.op = "properties" => result.val = Properties(result.cls)

\* --------------------------------------------------------------------------
\* Threads in Instrument.from_dict while the registry is unbuilt: a thread
\* may be switched out between any two statements that read or write
\* Instrument.__asset_class_and_type_to_instrument
\* --------------------------------------------------------------------------

\* the dictionaries the threads pass: the discriminants of each entry of
\* the registry, as members of the enums, and nothing else
ThreadPayloads ==
    {[k \in {asset_class, type} |-> IF k = asset_class THEN key[1] ELSE key[2]] :
        key \in DOMAIN Registry}

\* thread t calls Instrument.from_dict(values): values is not empty, and
\* asset_class_and_type_to_instrument() is called
FromDictCall(t, values) ==
    /\ threads[t].pc = "idle"
    /\ threads' = [threads EXCEPT ![t] = [pc |-> "check", values |-> values]]
    /\ UNCHANGED <<heap, result, class_properties, asset_class_and_type_to_instrument,
                   current_is_set, resolution_info>>

\* if not cls.__asset_class_and_type_to_instrument
RegistryCheck(t) ==
    /\ threads[t].pc = "check"
    /\ threads' = [threads EXCEPT ![t].pc =
                      IF asset_class_and_type_to_instrument = EmptyDict THEN "first" ELSE "get"]
    /\ UNCHANGED <<heap, result, class_properties, asset_class_and_type_to_instrument,
                   current_is_set, resolution_info>>

\* the classes are collected and (Cash, Currency) is entered as Forward
RegistryFirst(t) ==
    /\ threads[t].pc = "first"
    /\ asset_class_and_type_to_instrument' =
          DictPut(asset_class_and_type_to_instrument,
                  <<EnumV("AssetClass", "Cash"), EnumV("AssetType", "Currency")>>, "Forward")
    /\ threads' = [threads EXCEPT ![t] = [pc |-> "loop", values |-> threads[t].values, i |-> 1]]
    /\ UNCHANGED <<heap, result, class_properties, current_is_set, resolution_info>>

\* one round of the loop over instrument_classes; the function returns
\* after the last
RegistryLoop(t) ==
    /\ threads[t].pc = "loop"
    /\ LET clazz == TargetInstruments[threads[t].i]
       IN  asset_class_and_type_to_instrument' =
              DictPut(asset_class_and_type_to_instrument, DiscriminantsOf(clazz), clazz)
    /\ threads' = [threads EXCEPT ![t] =
                      IF threads[t].i = Len(TargetInstruments)
                      THEN [pc |-> "get", values |-> threads[t].values]
                      ELSE [pc |-> "loop", values |-> threads[t].values, i |-> threads[t].i + 1]]
    /\ UNCHANGED <<heap, result, class_properties, current_is_set, resolution_info>>

\* the lookup in the dictionary returned, and from_dict of the class found
RegistryGet(t) ==
    /\ threads[t].pc = "get"
    /\ LET Done(r) ==
               /\ heap' = r.heap
               /\ threads' = [threads EXCEPT ![t] =
                                 [pc |-> "done", values |-> threads[t].values,
                                  ok |-> r.ok, val |-> r.val]]
               /\ result' = [op |-> "instrument_from_dict", values |-> threads[t].values,
                             ok |-> r.ok, err |-> r.err, val |-> r.val]
       IN  Done(RegistryFromDict(asset_class_and_type_to_instrument, heap,
                                 DictV(threads[t].values)))
    /\ UNCHANGED <<class_properties, asset_class_and_type_to_instrument,
                   current_is_set, resolution_info>>

NextThreads ==
    \E t \in Threads :
        \/ \E values \in ThreadPayloads : FromDictCall(t, values)
        \/ RegistryCheck(t)
        \/ RegistryFirst(t)
        \/ RegistryLoop(t)
        \/ RegistryGet(t)

SpecThreads == InitObj /\ [][NextThreads]_vars

\* C15: every thread that called Instrument.from_dict with the discriminants
\* of a registered class gets an instance of that class, and when all
\* threads have returned the registry is the one a single thread builds.
C15_ConcurrentFirstUse ==
    /\ \A t \in Threads :
          threads[t].pc = "done" =>
              /\ threads[t].ok
              /\ heap[threads[t].val.r].cls =
                     Registry[<<threads[t].values[asset_class], threads[t].values[type]>>]
    /\ (\A t \in Threads : threads[t].pc = "done") =>
          asset_class_and_type_to_instrument = Registry

\* --------------------------------------------------------------------------
\* A priceable: its properties are assigned, it is hashed, the session is
\* entered and left, and its attributes are read
\* --------------------------------------------------------------------------

\* what _resolution_info holds once resolve() has run in place
ResolutionInfo == DictV([k \in {time} |-> IntV(0)])

\* the value resolve() gives a property it resolves
ResolvedValue(kind) ==
    IF kind.kind = "enum" THEN EnumV(kind.t, EnumMembers(kind.t)[1].n) ELSE IntV(0)

\* Priceable._property_changed on instance id, after Base._property_changed:
\* the resolution info is None again
PriceablePropertyChanged(ri, id) == [ri EXCEPT ![id] = NoneV]

\* Priceable.__getattribute__(name) calls self.resolve(), as it would
\* decide without asking whether a session is current
TriggersResolveWithoutSession(h, ri, session, id, name) ==
    /\ ri[id] = NoneV
    /\ name \in Properties(h[id].cls)
    /\ h[id].fields[name] = NoneV

\* Priceable.__getattribute__(name) calls self.resolve()
TriggersResolve(h, ri, session, id, name) ==
    /\ session
    /\ ri[id] = NoneV
    /\ name \in Properties(h[id].cls)
    /\ h[id].fields[name] = NoneV

\* resolve() in place, resolving the properties fs: each is assigned
\* through its setter
ResolveFields(h, id, fs) ==
    [h EXCEPT ![id] =
        IF fs = {} THEN @
        ELSE PropertyChanged([@ EXCEPT !.fields =
                 [q \in DOMAIN @ |->
                     IF q \in fs THEN ResolvedValue(ClassDecl(h[id].cls)[q]) ELSE @[q]]])]

\* super().__getattribute__(name), and Base.__getattr__(name) when that
\* finds nothing
GetAttr(h, id, name) ==
    IF name \in Properties(h[id].cls) THEN Returned(h, h[id].fields[name])
    ELSE IF Underscore(name) \in Properties(h[id].cls)
         THEN Returned(h, h[id].fields[Underscore(name)])
         ELSE Raised(h, "AttributeError")

\* one Swap, its required argument given or None
InitPrice ==
    \E v \in {NoneV, EnumV("PayReceive", "Pay")} :
        /\ heap = NewObj([id \in ObjIds |-> NoObj], "Swap", << <<pay_or_receive, v>> >>).heap
        /\ result = [op |-> "init"]
        /\ InitStatics

\* a session is entered (TRUE) or left (FALSE)
SessionSet(b) ==
    /\ current_is_set' = b
    /\ result' = [op |-> "session"]
    /\ UNCHANGED <<heap, class_properties, asset_class_and_type_to_instrument,
                   threads, resolution_info>>

\* setattr(priceable, key, value)
PriceSetAttr(id, key, value) ==
    LET Done(r, changed) ==
            /\ heap' = r.heap
            /\ resolution_info' =
                  IF changed THEN PriceablePropertyChanged(resolution_info, id)
                  ELSE resolution_info
            /\ result' = [op |-> "setattr", id |-> id, ok |-> r.ok, changed |-> changed,
                          hashed |-> heap[id].calced_hash # NoHash,
                          resolved |-> resolution_info[id] # NoneV]
        Set(r) ==
            Done(r, r.ok /\ (key \in Properties(heap[id].cls)
                                \/ Underscore(key) \in Properties(heap[id].cls)))
    IN  /\ Set(SetAttr(heap, id, key, value))
        /\ UNCHANGED <<class_properties, asset_class_and_type_to_instrument,
                       threads, current_is_set>>

\* getattr(priceable, name); fs are the properties resolve() resolves if
\* it is called
PriceGetAttr(id, name, fs) ==
    LET Got(r, called) ==
            /\ heap' = r.heap
            /\ resolution_info' =
                  IF called THEN [resolution_info EXCEPT ![id] = ResolutionInfo]
                  ELSE resolution_info
            /\ result' = [op |-> "getattr", id |-> id, name |-> name,
                          resolve_called |-> called,
                          session |-> current_is_set,
                          resolved |-> resolution_info[id] # NoneV,
                          declared |-> name \in Properties(heap[id].cls),
                          none |-> name \in Properties(heap[id].cls)
                                      /\ heap[id].fields[name] = NoneV,
                          ok |-> r.ok, val |-> r.val]
        Read(called) ==
            Got(GetAttr(IF called THEN ResolveFields(heap, id, fs) ELSE heap, id, name), called)
    IN  /\ Read(TriggersResolve(heap, resolution_info, current_is_set, id, name))
        /\ UNCHANGED <<class_properties, asset_class_and_type_to_instrument,
                       threads, current_is_set>>

NextPrice ==
    \/ \E b \in BOOLEAN : b # current_is_set /\ SessionSet(b)
    \/ \E id \in Live(heap) :
         \E key \in KeysFor(heap[id].cls) :
            \E value \in ValuesFor(heap, heap[id].cls, Underscore(key)) :
               PriceSetAttr(id, key, value)
    \/ \E id \in Live(heap) : ObjHash(id)
    \/ \E id \in Live(heap) :
         \E name \in KeysFor(heap[id].cls) :
            \E fs \in SUBSET {q \in InitProps(heap[id].cls) : heap[id].fields[q] = NoneV} :
               PriceGetAttr(id, name, fs)

SpecPrice == InitPrice /\ [][NextPrice]_vars

\* C19: a property change on a priceable leaves it without resolution info
\* and without a cached hash; an attribute read calls resolve() exactly
\* when a session is current, the priceable is unresolved, the attribute is
\* a declared property and the value of the property is None.
C19_ResolutionState ==
    /\ (result.op = "setattr" /\ result.changed) =>
          /\ resolution_info[result.id] = NoneV
          /\ heap[result.id].calced_hash = NoHash
    /\ result.op = "getattr" =>
          (result.resolve_called <=>
              (result.session /\ ~result.resolved /\ result.declared /\ result.none))

\* a property of a resolved and hashed priceable was assigned: a read had
\* called resolve() before
C19_Witness ==
    /\ result.op = "setattr"
    /\ result.changed
    /\ result.hashed
    /\ result.resolved

=============================================================================
